---- MODULE Spec2Model ----
(***************************************************************************)
(* A model of the stressor adapter pipeline (AdapterPipeline, deepMerge),  *)
(* of the k6 output sanitizer (K6OutputSanitizer) and of the part of       *)
(* LoadAdapter.run that reads the k6 output file.                          *)
(*                                                                         *)
(* JavaScript objects live in memory: an object is a function from its own *)
(* keys to values, a value is a primitive or a reference to an object, so  *)
(* that copying, aliasing and in-place mutation are distinguishable.       *)
(* Objects that outlive a call of run are at the positive addresses, the   *)
(* objects a call of run allocates are at the negative ones. One call of   *)
(* run is followed at a time; when it has settled and its caller lets go   *)
(* of it, what it allocated is unreachable and the next call can start.    *)
(***************************************************************************)
EXTENDS Integers, Sequences, FiniteSets, TLC

VARIABLES
  heap,       \* config objects: heap[a] is a function key -> value
  frame,      \* the objects the run in flight allocated, frame[a] at address -a
  aheap,      \* adapter registries: aheap[a] is a sequence of [key, adapter]
  pipelines,  \* AdapterPipeline instances: [adapters |-> ref, config |-> ref]
  runs,       \* the calls of AdapterPipeline.run, settled or in flight
  calls,      \* every invocation of an adapter's run, in the order made
  rawData,    \* K6OutputSanitizer.rawData: the events handed to the constructor
  metrics,    \* K6OutputSanitizer.metrics: the Map's entries in insertion order
  phase,      \* where processData is: definitions, points, summaries, done
  pos,        \* the index of the event the running forEach is at
  target,     \* deepMerge called directly: the address of its first argument
  source,     \* ... and of its second argument
  merged,     \* ... and the addresses of the results, in the order returned
  fileContent, \* LoadAdapter.run: the lines of the file k6 wrote
  outcome     \* LoadAdapter.run: pending, or what its promise settled with

pvars == <<heap, frame, aheap, pipelines, runs, calls>>
svars == <<rawData, metrics, phase, pos>>
mvars == <<target, source, merged>>
lvars == <<fileContent, outcome>>
vars == <<heap, frame, aheap, pipelines, runs, calls, rawData, metrics, phase, pos,
          target, source, merged, fileContent, outcome>>

----------------------------------------------------------------------------
(* Bounds of the model *)

MaxPipelines == 3
MaxEvents == 3
MaxMerges == 1
MaxLines == 4

----------------------------------------------------------------------------
(* JavaScript values *)

V(t, n) == [t |-> t, n |-> n]
Undefined == V("undefined", 0)
Null == V("null", 0)
Num(n) == V("number", n)
\* strings are numbered; string 0 is the empty string
Str(n) == V("string", n)
Arr(n) == V("array", n)
Obj(a) == V("object", a)

\* a test that only takes undefined for "no config"
TruthyUndefinedOnly(v) == v.t # "undefined"

\* ToBoolean, as applied by `finalConfig[key] ? ... : null` and `config || undefined`
Truthy(v) ==
  CASE v.t = "undefined" -> FALSE
    [] v.t = "null" -> FALSE
    [] v.t = "number" -> v.n # 0
    [] v.t = "string" -> v.n # 0
    [] OTHER -> TRUE

\* isObject without the Array.isArray test
isObjectOrArray(v) == v.t = "object" \/ v.t = "array"

\* typeof value === "object"
TypeofObject(v) == v.t \in {"null", "array", "object"}

isObject(v) == v.t # "null" /\ TypeofObject(v) /\ v.t # "array"

EmptyObj == [k \in {} |-> Undefined]

\* the object at an address: h holds the long-lived objects, f those of the run
At(h, f, a) == IF a > 0 THEN h[a] ELSE f[-a]

\* both parts of the memory after writing object o at address a
Store(h, f, a, o) ==
  IF a > 0 THEN [h |-> [h EXCEPT ![a] = o], f |-> f]
  ELSE [h |-> h, f |-> [f EXCEPT ![-a] = o]]

\* the address of the next object a run allocates
NewAddress(f) == -(Len(f) + 1)

\* obj[key]: undefined when the object has no such key
Get(h, f, a, k) ==
  IF k \in DOMAIN At(h, f, a) THEN At(h, f, a)[k] ELSE Undefined

\* obj[key] = value on the object itself
Put(o, k, v) == [x \in (DOMAIN o) \cup {k} |-> IF x = k THEN v ELSE o[x]]

\* The order in which Object.keys lists the keys that occur in the model
KeyOrder == <<"a", "b", "n", "x", "z">>

RECURSIVE SeqSelectKeys(_, _)
SeqSelectKeys(s, dom) ==
  IF s = <<>> THEN <<>>
  ELSE IF Head(s) \in dom THEN <<Head(s)>> \o SeqSelectKeys(Tail(s), dom)
       ELSE SeqSelectKeys(Tail(s), dom)

ObjectKeys(o) == SeqSelectKeys(KeyOrder, DOMAIN o)

----------------------------------------------------------------------------
(* deepMerge(target, source): returns the memory after the call and the    *)
(* address of the result                                                   *)

RECURSIVE deepMerge(_, _, _, _)
RECURSIVE MergeLoop(_, _, _, _, _, _)
RECURSIVE MergeLoopShallow(_, _, _, _, _, _)

\* the loop without the recursive branch: every key of source is assigned
MergeLoopShallow(h, f, t, s, r, ks) ==
  IF ks = <<>> THEN [h |-> h, f |-> f]
  ELSE LET w == Store(h, f, r, Put(At(h, f, r), Head(ks), At(h, f, s)[Head(ks)]))
       IN MergeLoopShallow(w.h, w.f, t, s, r, Tail(ks))

\* the loop `for (const key of Object.keys(source))`, result at address r
MergeLoop(h, f, t, s, r, ks) ==
  IF ks = <<>> THEN [h |-> h, f |-> f]
  ELSE LET key == Head(ks)
           value == At(h, f, s)[key]
       IN IF key \in DOMAIN At(h, f, t) /\ isObject(At(h, f, t)[key])
               /\ isObject(value)
          THEN LET d == deepMerge(h, f, At(h, f, t)[key].n, value.n)
                   w == Store(d.h, d.f, r, Put(At(d.h, d.f, r), key, Obj(d.r)))
               IN MergeLoop(w.h, w.f, t, s, r, Tail(ks))
          ELSE LET w == Store(h, f, r, Put(At(h, f, r), key, value))
               IN MergeLoop(w.h, w.f, t, s, r, Tail(ks))

\* `const result = target` instead of a copy: the merge writes into target
deepMergeInPlace(h, f, t, s) ==
  LET w == MergeLoop(h, f, t, s, t, ObjectKeys(At(h, f, s)))
  IN [h |-> w.h, f |-> w.f, r |-> t]

deepMerge(h, f, t, s) ==
  LET r == NewAddress(f)
      w == MergeLoop(h, Append(f, At(h, f, t)), t, s, r, ObjectKeys(At(h, f, s)))
  IN [h |-> w.h, f |-> w.f, r |-> r]

----------------------------------------------------------------------------
(* Values and objects the callers of the pipeline pass in *)

\* heap objects that exist before any call: the callers' config literals
\*   1: {z: 1}   2: {x: 1, n: <1>}   3: {x: 2}   4: {z: 2}   5: {n: <4>}
\*   6: the `{}` the constructor's default parameter makes for `config`
InitHeap ==
  << [k \in {"z"} |-> Num(1)],
     [k \in {"x", "n"} |-> IF k = "x" THEN Num(1) ELSE Obj(1)],
     [k \in {"x"} |-> Num(2)],
     [k \in {"z"} |-> Num(2)],
     [k \in {"n"} |-> Obj(4)],
     EmptyObj >>

Keys == {"a", "b"}

\* every addAdapter call registers an adapter object of its own: the n-th
\* pipeline instance was made by registering adapter n
NewAdapter == Len(pipelines) + 1

\* the config argument of addAdapter (Undefined: the argument is left out)
\* and the value argument of setConfig
AddInputs == {Undefined, Num(0), Obj(2)}
SetInputs == {Obj(3)}

\* the override argument of run; Absent: run is called without one
Absent == [k \in {"#absent"} |-> Undefined]
Overrides ==
  { Absent,
    [k \in {"a"} |-> Null],
    [k \in {"a", "b"} |-> IF k = "a" THEN Obj(5) ELSE Str(0)] }

\* what the promise of the c-th adapter invocation resolves with: a value
\* that only this invocation produces
Output(c) == V("output", c)

----------------------------------------------------------------------------
(* AdapterPipeline *)

\* what a method of pipeline p can return: p itself or an instance it constructs
Returned(p) == {p, Len(pipelines) + 1}

\* position of key in the entries of a registry, 0 when it has none
IndexOf(reg, key) ==
  IF \E i \in 1..Len(reg) : reg[i].key = key
  THEN CHOOSE i \in 1..Len(reg) : reg[i].key = key
  ELSE 0

\* { ...registry, [key]: adapter }: a present key keeps its place
SpreadPut(reg, key, adapter) ==
  IF IndexOf(reg, key) # 0
  THEN [reg EXCEPT ![IndexOf(reg, key)] = [key |-> key, adapter |-> adapter]]
  ELSE Append(reg, [key |-> key, adapter |-> adapter])

\* no sanitizer has been constructed
NoSanitizer ==
  /\ rawData = <<>>
  /\ metrics = <<>>
  /\ phase = "none"
  /\ pos = 0

\* deepMerge has not been called directly
NoMerge ==
  /\ target = 0
  /\ source = 0
  /\ merged = <<>>

\* what a promise that has not settled, has rejected, has resolved holds
Pending == [kind |-> "pending", error |-> "", line |-> 0, value |-> <<>>]
Rejected(error, line) ==
  [kind |-> "rejected", error |-> error, line |-> line, value |-> <<>>]
Resolved(value) ==
  [kind |-> "resolved", error |-> "", line |-> 0, value |-> value]

\* no load adapter is running
NoLoad ==
  /\ fileContent = <<>>
  /\ outcome = Pending

PipelineInit ==
  /\ heap = InitHeap
  /\ frame = <<>>
  /\ aheap = << <<>> >>
  /\ pipelines = << [adapters |-> 1, config |-> Len(InitHeap)] >>
  /\ runs = <<>>
  /\ calls = <<>>

\* addAdapter that registers on the receiver itself and returns it
AddAdapterInPlace(p, key, adapter, config, res) ==
  /\ Len(pipelines) < MaxPipelines
  /\ res = Len(pipelines) + 1
  /\ aheap' = [aheap EXCEPT ![pipelines[p].adapters] = SpreadPut(@, key, adapter)]
  /\ heap' = [heap EXCEPT ![pipelines[p].config] =
                Put(@, key, IF Truthy(config) THEN config ELSE Undefined)]
  /\ pipelines' = Append(pipelines, pipelines[p])
  /\ UNCHANGED <<frame, runs, calls>>

\* addAdapter that spreads the old config over the new entry
AddAdapterKeepOld(p, key, adapter, config, res) ==
  /\ Len(pipelines) < MaxPipelines
  /\ pipelines' = Append(pipelines,
                    [adapters |-> Len(aheap) + 1, config |-> Len(heap) + 1])
  /\ res = Len(pipelines) + 1
  /\ aheap' = Append(aheap, SpreadPut(aheap[pipelines[p].adapters], key, adapter))
  /\ heap' = Append(heap,
                IF key \in DOMAIN heap[pipelines[p].config]
                THEN heap[pipelines[p].config]
                ELSE Put(heap[pipelines[p].config], key,
                         IF Truthy(config) THEN config ELSE Undefined))
  /\ UNCHANGED <<frame, runs, calls>>

\* res: the instance the call returns
AddAdapter(p, key, adapter, config, res) ==
  /\ Len(pipelines) < MaxPipelines
  /\ pipelines' = Append(pipelines,
                    [adapters |-> Len(aheap) + 1, config |-> Len(heap) + 1])
  /\ res = Len(pipelines) + 1
  /\ aheap' = Append(aheap, SpreadPut(aheap[pipelines[p].adapters], key, adapter))
  /\ heap' = Append(heap,
                Put(heap[pipelines[p].config], key,
                    IF Truthy(config) THEN config ELSE Undefined))
  /\ UNCHANGED <<frame, runs, calls>>

\* setConfig that returns a fresh pipeline holding the changed config
SetConfigCopy(p, key, value, res) ==
  /\ key \in DOMAIN heap[pipelines[p].config]
  /\ Len(pipelines) < MaxPipelines
  /\ heap' = Append(heap, Put(heap[pipelines[p].config], key, value))
  /\ pipelines' = Append(pipelines,
                    [adapters |-> pipelines[p].adapters, config |-> Len(heap) + 1])
  /\ res = Len(pipelines) + 1
  /\ UNCHANGED <<frame, aheap, runs, calls>>

\* setConfig that copies the entries of an object value into the object the
\* key already holds (Object.assign(this.config[key], value))
SetConfigAssign(p, key, value, res) ==
  /\ key \in DOMAIN heap[pipelines[p].config]
  /\ res = p
  /\ UNCHANGED <<frame, aheap, pipelines, runs, calls>>
  /\ LET old == heap[pipelines[p].config][key]
     IN heap' =
          IF old.t = "object" /\ value.t = "object" /\ old.n > 0
          THEN [heap EXCEPT ![old.n] =
                  [x \in (DOMAIN heap[old.n]) \cup (DOMAIN heap[value.n]) |->
                     IF x \in DOMAIN heap[value.n] THEN heap[value.n][x]
                     ELSE heap[old.n][x]]]
          ELSE [heap EXCEPT ![pipelines[p].config] = Put(@, key, value)]

\* K extends keyof Config: the key is one the config registry already has;
\* res: the instance the call returns
SetConfig(p, key, value, res) ==
  /\ key \in DOMAIN heap[pipelines[p].config]
  /\ res = p
  /\ UNCHANGED <<frame, aheap, pipelines, runs, calls>>
  /\ heap' = [heap EXCEPT ![pipelines[p].config] = Put(@, key, value)]

----------------------------------------------------------------------------
(* AdapterPipeline.run *)

\* the promise an adapter's run returned, or the null of a skipped adapter
NullEntry == [st |-> "null", call |-> 0]
Promise(st, c) == [st |-> st, call |-> c]

\* what `await p` gives for a settled entry of the promises array
Awaited(pr) == IF pr.st = "null" THEN Null ELSE Output(pr.call)

RECURSIVE DropNulls(_)
DropNulls(results) ==
  IF results = <<>> THEN <<>>
  ELSE IF Head(results) = Null THEN DropNulls(Tail(results))
       ELSE <<Head(results)>> \o DropNulls(Tail(results))

\* pairs the keys with results.filter(Boolean): the skipped adapters' nulls
\* are gone and the outputs that follow move up
ResultMapCompact(reg, results) ==
  [i \in 1..Len(reg) |->
     [key |-> reg[i].key,
      value |-> IF i <= Len(DropNulls(results)) THEN DropNulls(results)[i]
                ELSE Undefined]]

\* Object.fromEntries(Object.entries(adapters).map(([key], i) => [key, results[i]]))
ResultMap(reg, results) ==
  [i \in 1..Len(reg) |->
     [key |-> reg[i].key,
      value |-> IF i <= Len(results) THEN results[i] ELSE Undefined]]

RECURSIVE StartedCalls(_, _, _, _, _, _)
\* the adapter.run(finalConfig[key]) calls the map callback makes, in order
StartedCalls(h, f, final, reg, r, i) ==
  IF i > Len(reg) THEN <<>>
  ELSE (IF Truthy(Get(h, f, final, reg[i].key))
        THEN << [run |-> r, key |-> reg[i].key, adapter |-> reg[i].adapter,
                 input |-> Get(h, f, final, reg[i].key)] >>
        ELSE <<>>)
       \o StartedCalls(h, f, final, reg, r, i + 1)

\* run up to its first await
RunStart(p, ov, par) ==
  /\ runs = <<>>
  /\ UNCHANGED <<aheap, pipelines>>
  /\ LET src == IF ov = Absent THEN EmptyObj ELSE ov
         f1 == Append(frame, src)
         d == deepMerge(heap, f1, pipelines[p].config, -Len(f1))
         reg == aheap[pipelines[p].adapters]
         started == StartedCalls(d.h, d.f, d.r, reg, Len(runs) + 1, 1)
         \* the calls made before entry i of the registry
         before(i) == Len(StartedCalls(d.h, d.f, d.r, SubSeq(reg, 1, i - 1),
                                       Len(runs) + 1, 1))
         promises == [i \in 1..Len(reg) |->
                        IF Truthy(Get(d.h, d.f, d.r, reg[i].key))
                        THEN Promise("pending", Len(calls) + before(i) + 1)
                        ELSE NullEntry]
         empty == ~par /\ Len(reg) = 0
     IN /\ heap' = d.h
        /\ frame' = d.f
        /\ calls' = calls \o started
        /\ runs' = Append(runs,
             [pipe |-> p, par |-> par, final |-> d.r,
              promises |-> promises, results |-> <<>>,
              status |-> IF empty THEN "resolved" ELSE "pending",
              value |-> IF empty THEN ResultMap(reg, <<>>) ELSE <<>>])

\* an adapter's promise settles: resolved with an output, or rejected
Settle(r, i, ok) ==
  /\ runs[r].promises[i].st = "pending"
  /\ runs' = [runs EXCEPT ![r].promises[i].st =
                IF ok THEN "resolved" ELSE "rejected"]
  /\ UNCHANGED <<heap, frame, aheap, pipelines, calls>>

\* one turn of `for (const p of promises) results.push(await p)`, and the
\* return that follows the last one
SeqAwait(r) ==
  /\ ~runs[r].par
  /\ runs[r].status = "pending"
  /\ LET i == Len(runs[r].results) + 1
         pr == runs[r].promises[i]
         res == Append(runs[r].results, Awaited(pr))
         reg == aheap[pipelines[runs[r].pipe].adapters]
     IN /\ i <= Len(runs[r].promises)
        /\ pr.st # "pending"
        /\ runs' = [runs EXCEPT ![r] =
             IF pr.st = "rejected"
             THEN [@ EXCEPT !.status = "rejected"]
             ELSE IF i = Len(runs[r].promises)
                  THEN [@ EXCEPT !.results = res, !.status = "resolved",
                                 !.value = ResultMap(reg, res)]
                  ELSE [@ EXCEPT !.results = res]]
  /\ UNCHANGED <<heap, frame, aheap, pipelines, calls>>

\* a join that waits for every promise and keeps what resolved
ParJoinAllSettled(r) ==
  /\ runs[r].par
  /\ runs[r].status = "pending"
  /\ \A i \in 1..Len(runs[r].promises) : runs[r].promises[i].st # "pending"
  /\ LET res == [i \in 1..Len(runs[r].promises) |->
                   IF runs[r].promises[i].st = "rejected" THEN Null
                   ELSE Awaited(runs[r].promises[i])]
         reg == aheap[pipelines[runs[r].pipe].adapters]
     IN runs' = [runs EXCEPT ![r].results = res, ![r].status = "resolved",
                             ![r].value = ResultMap(reg, res)]
  /\ UNCHANGED <<heap, frame, aheap, pipelines, calls>>

\* `await Promise.all(promises)` and the return that follows it
ParJoin(r) ==
  /\ runs[r].par
  /\ runs[r].status = "pending"
  /\ LET ps == runs[r].promises
         res == [i \in 1..Len(ps) |-> Awaited(ps[i])]
         reg == aheap[pipelines[runs[r].pipe].adapters]
     IN \/ /\ \E i \in 1..Len(ps) : ps[i].st = "rejected"
           /\ runs' = [runs EXCEPT ![r].status = "rejected"]
        \/ /\ \A i \in 1..Len(ps) : ps[i].st \in {"null", "resolved"}
           /\ runs' = [runs EXCEPT ![r].results = res, ![r].status = "resolved",
                                   ![r].value = ResultMap(reg, res)]
  /\ UNCHANGED <<heap, frame, aheap, pipelines, calls>>

\* the caller lets go of a settled run: its result, the objects it allocated
\* and the record of the invocations it made are unreachable from then on
Forget(r) ==
  /\ runs[r].status # "pending"
  /\ runs' = <<>>
  /\ calls' = <<>>
  /\ frame' = <<>>
  /\ UNCHANGED <<heap, aheap, pipelines>>

Init == PipelineInit /\ NoSanitizer /\ NoMerge /\ NoLoad

Next ==
  \/ /\ \E p \in 1..Len(pipelines), key \in Keys, config \in AddInputs :
          \E res \in Returned(p) :
            AddAdapter(p, key, NewAdapter, config, res)
     /\ UNCHANGED <<svars, mvars, lvars>>
  \/ /\ \E p \in 1..Len(pipelines), key \in Keys, value \in SetInputs :
          \E res \in Returned(p) :
            SetConfig(p, key, value, res)
     /\ UNCHANGED <<svars, mvars, lvars>>
  \/ /\ \E p \in 1..Len(pipelines), ov \in Overrides, par \in BOOLEAN :
          RunStart(p, ov, par)
     /\ UNCHANGED <<svars, mvars, lvars>>
  \/ /\ \E r \in 1..Len(runs) : \E i \in 1..Len(runs[r].promises) :
          \E ok \in BOOLEAN : Settle(r, i, ok)
     /\ UNCHANGED <<svars, mvars, lvars>>
  \/ /\ \E r \in 1..Len(runs) : SeqAwait(r)
     /\ UNCHANGED <<svars, mvars, lvars>>
  \/ /\ \E r \in 1..Len(runs) : ParJoin(r)
     /\ UNCHANGED <<svars, mvars, lvars>>
  \/ /\ \E r \in 1..Len(runs) : Forget(r)
     /\ UNCHANGED <<svars, mvars, lvars>>

Spec == Init /\ [][Next]_vars

----------------------------------------------------------------------------
(* deepMerge applied to trees of nested objects, arrays and primitives *)

\* the objects at the addresses after those of InitHeap; an array is an
\* object whose keys are its indices
\*   7: [1, 2]   8: [3]   9: {a: [1, 2], n: <1>}   10: {a: [3], n: <4>, b: null}
\*   11: {a: 0, n: [1, 2], x: "s"}   12: {n: <9>, b: <3>}   13: {n: <10>, z: ""}
MergeTrees ==
  << [k \in {"0", "1"} |-> IF k = "0" THEN Num(1) ELSE Num(2)],
     [k \in {"0"} |-> Num(3)],
     [k \in {"a", "n"} |-> IF k = "a" THEN Arr(7) ELSE Obj(1)],
     [k \in {"a", "n", "b"} |->
        IF k = "a" THEN Arr(8) ELSE IF k = "n" THEN Obj(4) ELSE Null],
     [k \in {"a", "n", "x"} |->
        IF k = "a" THEN Num(0) ELSE IF k = "n" THEN Arr(7) ELSE Str(1)],
     [k \in {"n", "b"} |-> IF k = "n" THEN Obj(9) ELSE Obj(3)],
     [k \in {"n", "z"} |-> IF k = "n" THEN Obj(10) ELSE Str(0)] >>

\* the objects a caller passes to deepMerge or to the constructor
MergeRoots == {6, 9, 10, 11, 12, 13}

\* the override argument of run
MergeOverrides ==
  Overrides \cup { [k \in {"n"} |-> Arr(8)],
                   [k \in {"n", "b"} |-> IF k = "n" THEN Obj(5) ELSE Arr(7)] }

\* a pipeline constructed with one of the trees as its config
MergeInit ==
  /\ heap = InitHeap \o MergeTrees
  /\ frame = <<>>
  /\ aheap = << <<>> >>
  /\ \E c \in MergeRoots : pipelines = << [adapters |-> 1, config |-> c] >>
  /\ runs = <<>>
  /\ calls = <<>>
  /\ NoSanitizer
  /\ NoMerge
  /\ NoLoad

\* a caller applies deepMerge to two trees, one of which may be an earlier result
Merge(t, s) ==
  /\ Len(merged) < MaxMerges
  /\ LET d == deepMerge(heap, frame, t, s)
     IN /\ heap' = d.h
        /\ frame' = d.f
        /\ merged' = Append(merged, d.r)
  /\ target' = t
  /\ source' = s
  /\ UNCHANGED <<aheap, pipelines, runs, calls>>

MergeNext ==
  \/ /\ \E t, s \in MergeRoots \cup {merged[i] : i \in 1..Len(merged)} :
          Merge(t, s)
     /\ UNCHANGED <<svars, lvars>>
  \/ /\ \E ov \in MergeOverrides, par \in BOOLEAN : RunStart(1, ov, par)
     /\ UNCHANGED <<svars, mvars, lvars>>

MergeSpec == MergeInit /\ [][MergeNext]_vars

----------------------------------------------------------------------------
(* K6OutputSanitizer *)

(* Number: the values of the points are IEEE 754 binary64 numbers.  A finite
   number >= 0 is m * 2^e with m = 0 or 2^52 <= m < 2^53; m is kept as its
   digits in base Limb, lowest first, the highest never 0.  The values of the
   model stay far from the subnormal and the infinite range. *)

Precision == 53
Limb == 2^15

RECURSIVE Bits(_)
Bits(k) == IF k = 0 THEN 0 ELSE 1 + Bits(k \div 2)

RECURSIVE Trim(_)
Trim(n) ==
  IF n # <<>> /\ n[Len(n)] = 0 THEN Trim(SubSeq(n, 1, Len(n) - 1)) ELSE n

BitLen(n) ==
  IF n = <<>> THEN 0 ELSE (Len(n) - 1) * (Bits(Limb) - 1) + Bits(n[Len(n)])

RECURSIVE AddNat(_, _, _)
AddNat(a, b, carry) ==
  IF a = <<>> /\ b = <<>>
  THEN IF carry = 0 THEN <<>> ELSE <<carry>>
  ELSE LET x == IF a = <<>> THEN 0 ELSE Head(a)
           y == IF b = <<>> THEN 0 ELSE Head(b)
           s == x + y + carry
       IN <<s % Limb>> \o AddNat(IF a = <<>> THEN a ELSE Tail(a),
                                 IF b = <<>> THEN b ELSE Tail(b),
                                 s \div Limb)

Odd(n) == n # <<>> /\ n[1] % 2 = 1

\* n * 2^d
ShiftLeft(n, d) ==
  LET f == 2^(d % (Bits(Limb) - 1))
      low == [i \in 1..(Len(n) + 1) |->
                (IF i <= Len(n) THEN (n[i] * f) % Limb ELSE 0)
                  + (IF i > 1 THEN (n[i - 1] * f) \div Limb ELSE 0)]
  IN IF n = <<>> THEN <<>>
     ELSE [i \in 1..(d \div (Bits(Limb) - 1)) |-> 0] \o Trim(low)

\* n \div 2^d
ShiftRight(n, d) ==
  LET f == 2^(d % (Bits(Limb) - 1))
      high == SubSeq(n, (d \div (Bits(Limb) - 1)) + 1, Len(n))
  IN Trim([i \in 1..Len(high) |->
             (high[i] \div f)
               + (IF i < Len(high) THEN (high[i + 1] % f) * (Limb \div f)
                  ELSE 0)])

Half(n) == ShiftRight(n, 1)

\* quotient and remainder of n by a k < Limb, the high digits first
RECURSIVE DivNat(_, _)
DivNat(n, k) ==
  IF n = <<>> THEN [q |-> <<>>, r |-> 0]
  ELSE LET hi == DivNat(Tail(n), k)
           cur == hi.r * Limb + Head(n)
       IN [q |-> <<cur \div k>> \o hi.q, r |-> cur % k]

RECURSIVE LessNat(_, _)
LessNat(a, b) ==
  IF Len(a) # Len(b) THEN Len(a) < Len(b)
  ELSE IF a = <<>> THEN FALSE
  ELSE IF a[Len(a)] # b[Len(b)] THEN a[Len(a)] < b[Len(b)]
  ELSE LessNat(Trim(SubSeq(a, 1, Len(a) - 1)), Trim(SubSeq(b, 1, Len(b) - 1)))

Zero == [m |-> <<>>, e |-> 0]

\* the binary64 number nearest to n * 2^e, ties to the even significand
Round(n, e) ==
  LET len == BitLen(n)
  IN IF len = 0 THEN Zero
     ELSE IF len <= Precision
     THEN [m |-> ShiftLeft(n, Precision - len), e |-> e - (Precision - len)]
     ELSE LET t == len - Precision
              q1 == ShiftRight(n, t - 1)
              q == Half(q1)
              sticky == ShiftLeft(q1, t - 1) # n
              up == Odd(q1) /\ (sticky \/ Odd(q))
              r == IF up THEN AddNat(q, <<1>>, 0) ELSE q
          IN IF BitLen(r) > Precision
             THEN [m |-> Half(r), e |-> e + t + 1]
             ELSE [m |-> r, e |-> e + t]

\* the Number of a small integer literal
NumOf(k) == Round(IF k = 0 THEN <<>> ELSE <<k>>, 0)

\* a + b
NumAdd(a, b) ==
  IF a.m = <<>> THEN b
  ELSE IF b.m = <<>> THEN a
  ELSE LET e == IF a.e < b.e THEN a.e ELSE b.e
       IN Round(AddNat(ShiftLeft(a.m, a.e - e), ShiftLeft(b.m, b.e - e), 0), e)

\* a / k for an integer k with 0 < k < Limb: the exact quotient is cut after
\* more digits than a significand holds and what is cut off is kept as one
\* last odd bit
NumDiv(a, k) ==
  LET g == Bits(k) + 2
      d == DivNat(ShiftLeft(a.m, g), k)
      q == Trim(d.q)
  IN Round(AddNat(q, q, IF d.r = 0 THEN 0 ELSE 1), a.e - g - 1)

\* a < b
NumLess(a, b) ==
  IF b.m = <<>> THEN FALSE
  ELSE IF a.m = <<>> THEN TRUE
  ELSE IF a.e # b.e THEN a.e < b.e
  ELSE LessNat(a.m, b.m)

NumLeq(a, b) == ~NumLess(b, a)

MetricNames == {"vus", "latency"}

\* the (type, contains) pairs of the definition events of the model
DefShapes == { <<"gauge", "default">>, <<"trend", "time">>, <<"counter", "data">> }

\* the values the lines carry: JSON.parse of 1, 2, 3 and 0.1
PointValues == { NumOf(1), NumOf(2), NumOf(3), NumDiv(NumOf(1), 10) }

\* K6Metric: `metric` and data.name both carry the metric's name
MetricEvent(name, shape) ==
  [type |-> "Metric", metric |-> name, name |-> name,
   kind |-> shape[1], contains |-> shape[2], time |-> 0, value |-> Zero]

\* K6Point; its time string is numbered, tags are left out
PointEvent(name, value) ==
  [type |-> "Point", metric |-> name, name |-> name,
   kind |-> "", contains |-> "", time |-> 0, value |-> value]

Events ==
  { MetricEvent(n, sh) : n \in MetricNames, sh \in DefShapes }
    \cup { PointEvent(n, v) : n \in MetricNames, v \in PointValues }

\* every line of a stream carries a time of its own; the times rise along
\* the stream (up) or fall along it: k6 writes samples as they are flushed,
\* not sorted by time
Stamp(s, up) ==
  [i \in 1..Len(s) |->
     IF s[i].type = "Point"
     THEN [s[i] EXCEPT !.time = IF up THEN i ELSE Len(s) + 1 - i]
     ELSE s[i]]

Streams ==
  { Stamp(s, up) : s \in UNION { [1..n -> Events] : n \in 0..MaxEvents },
                   up \in BOOLEAN }

\* Map.prototype.has / get / set on the entries of the Map
MapIndex(m, k) ==
  IF \E i \in 1..Len(m) : m[i].key = k
  THEN CHOOSE i \in 1..Len(m) : m[i].key = k
  ELSE 0

MapHas(m, k) == MapIndex(m, k) # 0
MapGet(m, k) == m[MapIndex(m, k)].report

MapSet(m, k, report) ==
  IF MapHas(m, k)
  THEN [m EXCEPT ![MapIndex(m, k)].report = report]
  ELSE Append(m, [key |-> k, report |-> report])

NoUnit == "undefined"
NoSummary == [count |-> 0, avg |-> Zero, min |-> Zero, max |-> Zero]

getUnitFromContains(contains) ==
  CASE contains = "time" -> "ms"
    [] contains = "data" -> "bytes"
    [] OTHER -> NoUnit

getMetricDescription(name) ==
  CASE name = "vus" -> "Virtual Users - Numero de usuarios virtuales activos"
    [] OTHER -> "Metrica: " \o name

\* new Date(time)
DateOf(time) == <<"Date", time>>

\* addMetricDefinition that overwrites an entry the Map already has
addMetricDefinitionLastWins(m, metric) ==
  MapSet(m, metric.name,
         [name |-> metric.name, type |-> metric.kind,
          description |-> getMetricDescription(metric.name),
          unit |-> getUnitFromContains(metric.contains),
          points |-> <<>>, hasSummary |-> FALSE, summary |-> NoSummary])

addMetricDefinition(m, metric) ==
  LET unit == getUnitFromContains(metric.contains)
  IN IF ~MapHas(m, metric.name)
     THEN MapSet(m, metric.name,
                 [name |-> metric.name, type |-> metric.kind,
                  description |-> getMetricDescription(metric.name),
                  unit |-> unit,
                  points |-> <<>>, hasSummary |-> FALSE, summary |-> NoSummary])
     ELSE m

\* addDataPoint that keeps the points of a report sorted by their time
addDataPointByTime(m, point) ==
  LET metricName == point.metric
      m1 == IF ~MapHas(m, metricName)
            THEN MapSet(m, metricName,
                        [name |-> metricName, type |-> "unknown",
                         description |-> getMetricDescription(metricName),
                         unit |-> NoUnit,
                         points |-> <<>>, hasSummary |-> FALSE,
                         summary |-> NoSummary])
            ELSE m
      new == [time |-> point.time, timestamp |-> DateOf(point.time),
              value |-> point.value]
      Earlier(q) == q.time <= new.time
      Later(q) == q.time > new.time
  IN [m1 EXCEPT ![MapIndex(m1, metricName)].report.points =
        SelectSeq(@, Earlier) \o <<new>> \o SelectSeq(@, Later)]

\* addDataPoint whose fallback report passes for a gauge measured in ms
addDataPointFallbackGauge(m, point) ==
  LET metricName == point.metric
      m1 == IF ~MapHas(m, metricName)
            THEN MapSet(m, metricName,
                        [name |-> metricName, type |-> "gauge",
                         description |-> getMetricDescription(metricName),
                         unit |-> "ms",
                         points |-> <<>>, hasSummary |-> FALSE,
                         summary |-> NoSummary])
            ELSE m
  IN [m1 EXCEPT ![MapIndex(m1, metricName)].report.points =
        Append(@, [time |-> point.time, timestamp |-> DateOf(point.time),
                   value |-> point.value])]

\* addDataPoint without the fallback: a point of an unknown metric is dropped
addDataPointKnownOnly(m, point) ==
  IF ~MapHas(m, point.metric) THEN m
  ELSE [m EXCEPT ![MapIndex(m, point.metric)].report.points =
          Append(@, [time |-> point.time, timestamp |-> DateOf(point.time),
                     value |-> point.value])]

addDataPoint(m, point) ==
  LET metricName == point.metric
      m1 == IF ~MapHas(m, metricName)
            THEN MapSet(m, metricName,
                        [name |-> metricName, type |-> "unknown",
                         description |-> getMetricDescription(metricName),
                         unit |-> NoUnit,
                         points |-> <<>>, hasSummary |-> FALSE,
                         summary |-> NoSummary])
            ELSE m
  IN [m1 EXCEPT ![MapIndex(m1, metricName)].report.points =
        Append(@, [time |-> point.time, timestamp |-> DateOf(point.time),
                   value |-> point.value])]

\* values.reduce((a, b) => a + b, 0)
RECURSIVE SumOf(_)
SumOf(values) ==
  IF values = <<>> THEN Zero
  ELSE NumAdd(SumOf(SubSeq(values, 1, Len(values) - 1)), values[Len(values)])

\* Math.min(...values), Math.max(...values)
MinOf(values) == CHOOSE x \in {values[i] : i \in 1..Len(values)} :
                   \A i \in 1..Len(values) : NumLeq(x, values[i])
MaxOf(values) == CHOOSE x \in {values[i] : i \in 1..Len(values)} :
                   \A i \in 1..Len(values) : NumLeq(values[i], x)

\* the summary of one report
Summarize(report) ==
  IF Len(report.points) > 0
  THEN LET values == [i \in 1..Len(report.points) |-> report.points[i].value]
       IN [report EXCEPT !.hasSummary = TRUE,
                         !.summary = [count |-> Len(values),
                                      avg |-> NumDiv(SumOf(values), Len(values)),
                                      min |-> MinOf(values),
                                      max |-> MaxOf(values)]]
  ELSE report

\* calculateSummaries without the test for points: every report gets a summary
calculateSummariesAll(m) ==
  [i \in 1..Len(m) |->
     [m[i] EXCEPT !.report = [Summarize(@) EXCEPT !.hasSummary = TRUE]]]

calculateSummaries(m) ==
  [i \in 1..Len(m) |-> [m[i] EXCEPT !.report = Summarize(@)]]

\* the constructor was handed a stream and processData is about to start
SanInit ==
  /\ PipelineInit
  /\ NoMerge
  /\ NoLoad
  /\ rawData \in Streams
  /\ metrics = <<>>
  /\ phase = "definitions"
  /\ pos = 1

\* a first forEach that handles both kinds of event as it meets them
DefinitionPassBothKinds ==
  /\ phase = "definitions"
  /\ IF pos <= Len(rawData)
     THEN /\ metrics' = IF rawData[pos].type = "Metric"
                        THEN addMetricDefinition(metrics, rawData[pos])
                        ELSE addDataPoint(metrics, rawData[pos])
          /\ pos' = pos + 1
          /\ phase' = phase
     ELSE /\ phase' = "summaries"
          /\ pos' = 1
          /\ metrics' = metrics
  /\ UNCHANGED rawData

\* one callback of the first forEach
DefinitionPass ==
  /\ phase = "definitions"
  /\ IF pos <= Len(rawData)
     THEN /\ metrics' = IF rawData[pos].type = "Metric"
                        THEN addMetricDefinition(metrics, rawData[pos])
                        ELSE metrics
          /\ pos' = pos + 1
          /\ phase' = phase
     ELSE /\ phase' = "points"
          /\ pos' = 1
          /\ metrics' = metrics
  /\ UNCHANGED rawData

\* one callback of the second forEach
PointPass ==
  /\ phase = "points"
  /\ IF pos <= Len(rawData)
     THEN /\ metrics' = IF rawData[pos].type = "Point"
                        THEN addDataPoint(metrics, rawData[pos])
                        ELSE metrics
          /\ pos' = pos + 1
          /\ phase' = phase
     ELSE /\ phase' = "summaries"
          /\ pos' = 1
          /\ metrics' = metrics
  /\ UNCHANGED rawData

SummaryPass ==
  /\ phase = "summaries"
  /\ metrics' = calculateSummaries(metrics)
  /\ phase' = "done"
  /\ UNCHANGED <<rawData, pos>>

SanNext ==
  \/ DefinitionPass /\ UNCHANGED <<pvars, mvars, lvars>>
  \/ PointPass /\ UNCHANGED <<pvars, mvars, lvars>>
  \/ SummaryPass /\ UNCHANGED <<pvars, mvars, lvars>>

SanSpec == SanInit /\ [][SanNext]_vars

\* getSanitizedOutput(): Array.from(this.metrics.values())
getSanitizedOutput == [i \in 1..Len(metrics) |-> metrics[i].report]

----------------------------------------------------------------------------
(* LoadAdapter.run, from reading the file k6 wrote *)

\* a line of the file: only whitespace, text that is no JSON, or the JSON of
\* an event
Blank == [kind |-> "blank", event |-> MetricEvent("", <<"", "">>)]
NotJson == [kind |-> "text", event |-> MetricEvent("", <<"", "">>)]
Json(e) == [kind |-> "json", event |-> e]

Lines ==
  { Blank, NotJson,
    Json(MetricEvent("vus", <<"gauge", "default">>)),
    Json(PointEvent("vus", NumOf(1))) }

Files == UNION { [1..n -> Lines] : n \in 0..MaxLines }

\* line.trim() is not empty
NotBlank(line) == line.kind # "blank"

\* fileContent.trim(), line by line: the blank lines at both ends are gone
RECURSIVE TrimContent(_)
TrimContent(c) ==
  IF c = <<>> THEN c
  ELSE IF ~NotBlank(Head(c)) THEN TrimContent(Tail(c))
  ELSE IF ~NotBlank(c[Len(c)]) THEN TrimContent(SubSeq(c, 1, Len(c) - 1))
  ELSE c

\* .map((json, index) => JSON.parse(json)): the events, or the index of the
\* first element JSON.parse throws on
ParseAll(jsons) ==
  IF \E i \in 1..Len(jsons) : jsons[i].kind = "text"
  THEN [ok |-> FALSE,
        index |-> (CHOOSE i \in 1..Len(jsons) :
                     /\ jsons[i].kind = "text"
                     /\ \A j \in 1..(i - 1) : jsons[j].kind # "text") - 1,
        events |-> <<>>]
  ELSE [ok |-> TRUE, index |-> 0,
        events |-> [i \in 1..Len(jsons) |-> jsons[i].event]]

\* trim, split, filter, map
ReadOutput(c) == ParseAll(SelectSeq(TrimContent(c), NotBlank))

LoadInit ==
  /\ PipelineInit
  /\ NoSanitizer
  /\ NoMerge
  /\ fileContent \in Files
  /\ outcome = Pending

\* run from readFile to the constructor of the sanitizer, or to its catch
LoadRun ==
  /\ outcome = Pending
  /\ phase = "none"
  /\ LET parsed == ReadOutput(fileContent)
     IN /\ outcome' =
             IF TrimContent(fileContent) = <<>>
             THEN Rejected("K6 output file is empty", 0)
             ELSE IF ~parsed.ok
             THEN Rejected("Failed to parse JSON at line", parsed.index + 1)
             ELSE IF Len(parsed.events) = 0
             THEN Rejected("No valid K6 output data was generated", 0)
             ELSE outcome
        /\ IF TrimContent(fileContent) # <<>> /\ parsed.ok
                /\ Len(parsed.events) # 0
           THEN /\ rawData' = parsed.events
                /\ metrics' = <<>>
                /\ phase' = "definitions"
                /\ pos' = 1
           ELSE UNCHANGED svars
  /\ UNCHANGED fileContent

\* return sanitizedOutput
LoadReturn ==
  /\ outcome = Pending
  /\ phase = "done"
  /\ outcome' = Resolved(getSanitizedOutput)
  /\ UNCHANGED <<svars, fileContent>>

LoadNext ==
  \/ LoadRun /\ UNCHANGED <<pvars, mvars>>
  \/ DefinitionPass /\ UNCHANGED <<pvars, mvars, lvars>>
  \/ PointPass /\ UNCHANGED <<pvars, mvars, lvars>>
  \/ SummaryPass /\ UNCHANGED <<pvars, mvars, lvars>>
  \/ LoadReturn /\ UNCHANGED <<pvars, mvars>>

LoadSpec == LoadInit /\ [][LoadNext]_vars

----------------------------------------------------------------------------
(* What the properties below speak about *)

RECURSIVE DeepVal(_, _, _)
\* a value with every object it reaches written out: equal for two values
\* exactly when they are structurally equal at every nesting level
DeepVal(h, f, v) ==
  IF v.t = "object" \/ v.t = "array"
  THEN [t |-> v.t, n |-> 0,
        f |-> [k \in DOMAIN At(h, f, v.n) |-> DeepVal(h, f, At(h, f, v.n)[k])]]
  ELSE [t |-> v.t, n |-> v.n, f |-> EmptyObj]

Registry(p) == aheap[pipelines[p].adapters]
DeepConfig(p) == DeepVal(heap, frame, Obj(pipelines[p].config))

\* the step changed no object that existed before it
ObjectsKept ==
  /\ Len(heap') >= Len(heap)
  /\ Len(frame') >= Len(frame)
  /\ SubSeq(heap', 1, Len(heap)) = heap
  /\ SubSeq(frame', 1, Len(frame)) = frame

\* the step leaves the stored config of pipeline p, written out at every
\* level, what it was: no object that existed changed, or the written-out
\* values agree
ConfigKept(p) ==
  \/ pipelines'[p] = pipelines[p] /\ ObjectsKept
  \/ DeepVal(heap', frame', Obj(pipelines'[p].config)) = DeepConfig(p)
RunRegistry(r) == Registry(runs[r].pipe)

\* the values the spec calls falsy
Falsy(v) == v \in {Undefined, Null, Num(0), Str(0)}

CallsOf(r, k) == {c \in 1..Len(calls) : calls[c].run = r /\ calls[c].key = k}
Started(r, k) == CallsOf(r, k) # {}
Settled(r, i) == runs[r].promises[i].st \in {"resolved", "rejected"}
Executable(r, i) == runs[r].promises[i].st # "null"

\* C1 (as claimed): in sequential mode an executable adapter registered later
\* is not started before the promise of an earlier executable adapter settled
C1_SequentialNeverOverlaps ==
  \A r \in 1..Len(runs) :
    ~runs[r].par =>
      \A i, j \in 1..Len(runs[r].promises) :
        (i < j /\ Executable(r, i) /\ Started(r, RunRegistry(r)[j].key))
          => Settled(r, i)

\* C2 (as claimed): in sequential mode, once an adapter's run rejected, no
\* adapter registered after it has been started
C2_RejectionStopsLaterAdapters ==
  \A r \in 1..Len(runs) :
    ~runs[r].par =>
      \A i, j \in 1..Len(runs[r].promises) :
        (i < j /\ runs[r].promises[i].st = "rejected")
          => ~Started(r, RunRegistry(r)[j].key)

\* C3: a parallel run one of whose adapters rejected is never resolved and
\* carries no result map, whatever the other adapters did; it is rejected, or
\* its rejection is due without any other adapter having to settle first
C3_ParallelRejectsWhole ==
  \A r \in 1..Len(runs) :
    (runs[r].par /\ \E i \in 1..Len(runs[r].promises) :
                       runs[r].promises[i].st = "rejected")
      => /\ runs[r].status # "resolved"
         /\ runs[r].value = <<>>
         /\ runs[r].status = "rejected" \/ ENABLED ParJoin(r)

\* a parallel run rejected although another of its adapters resolved
C3_Witness ==
  \E r \in 1..Len(runs) :
    /\ runs[r].par
    /\ runs[r].status = "rejected"
    /\ \E i, j \in 1..Len(runs[r].promises) :
         runs[r].promises[i].st = "rejected" /\ runs[r].promises[j].st = "resolved"

\* C4: an adapter whose merged config is falsy is never invoked and maps to
\* null, a truthy one is invoked exactly once with its merged config, and a
\* run only fails when an invoked adapter rejected
C4_FalsySkipped ==
  \A r \in 1..Len(runs) :
    /\ \A i \in 1..Len(RunRegistry(r)) :
         LET k == RunRegistry(r)[i].key
             cfg == Get(heap, frame, runs[r].final, k)
         IN IF Falsy(cfg)
            THEN /\ CallsOf(r, k) = {}
                 /\ runs[r].status = "resolved"
                      => runs[r].value[i] = [key |-> k, value |-> Null]
            ELSE /\ Cardinality(CallsOf(r, k)) = 1
                 /\ \A c \in CallsOf(r, k) : calls[c].input = cfg
    /\ runs[r].status = "rejected"
         => \E i \in 1..Len(runs[r].promises) : runs[r].promises[i].st = "rejected"

\* a resolved run that skipped one adapter and ran the other
C4_Witness ==
  \E r \in 1..Len(runs) :
    /\ runs[r].status = "resolved"
    /\ \E i, j \in 1..Len(RunRegistry(r)) :
         /\ Falsy(Get(heap, frame, runs[r].final, RunRegistry(r)[i].key))
         /\ runs[r].value[i].value = Null
         /\ ~Falsy(Get(heap, frame, runs[r].final, RunRegistry(r)[j].key))
         /\ runs[r].value[j].value # Null

\* C5: the result map of a resolved run lists the registered keys, each with
\* the output of the invocation made for that key, or null when none was
C5_ResultPairsOwnOutput ==
  \A r \in 1..Len(runs) :
    runs[r].status = "resolved" =>
      /\ Len(runs[r].value) = Len(RunRegistry(r))
      /\ \A i, j \in 1..Len(RunRegistry(r)) :
           i # j => RunRegistry(r)[i].key # RunRegistry(r)[j].key
      /\ \A i \in 1..Len(RunRegistry(r)) :
           LET k == RunRegistry(r)[i].key
           IN /\ runs[r].value[i].key = k
              /\ runs[r].value[i].value =
                   IF Started(r, k)
                   THEN Output(CHOOSE c \in CallsOf(r, k) : TRUE)
                   ELSE Null

\* a resolved run whose first adapter was skipped and whose second ran
C5_Witness ==
  \E r \in 1..Len(runs) :
    /\ runs[r].status = "resolved"
    /\ Len(RunRegistry(r)) = 2
    /\ runs[r].value[1].value = Null
    /\ runs[r].value[2].value.t = "output"

\* C6: an addAdapter step, which constructs an instance, starts no adapter and
\* changes no pipeline that existed before the call, and setConfig on one
\* pipeline changes no other pipeline: the registries of a pipeline, written
\* out at every level, stay what they were
C6_AddAdapterKeepsReceiver ==
  [][ /\ (/\ Len(pipelines') > Len(pipelines)
          /\ \E q \in 1..Len(pipelines), k \in Keys, c \in AddInputs :
               \E res \in Returned(q) : AddAdapter(q, k, NewAdapter, c, res))
          => /\ calls' = calls
             /\ runs' = runs
             /\ \A p \in 1..Len(pipelines) :
                  /\ Registry(p)' = Registry(p)
                  /\ ConfigKept(p)
      /\ heap' # heap =>
           \A q \in 1..Len(pipelines), k \in Keys, v \in SetInputs :
             (\E res \in Returned(q) : SetConfig(q, k, v, res))
               => \A p \in (1..Len(pipelines)) \ {q} :
                    /\ Registry(p)' = Registry(p)
                    /\ ConfigKept(p) ]_vars

\* pipeline 3 was made from pipeline 2, which holds key "a"; a setConfig on
\* pipeline 3 replaced its entry for "a", and pipeline 2 still has its own
C6_Witness ==
  /\ Len(pipelines) = 3
  /\ "a" \in DOMAIN heap[pipelines[2].config]
  /\ Len(Registry(3)) = 2
  /\ Registry(3)[1] = Registry(2)[1]
  /\ heap[pipelines[3].config]["a"] = Obj(3)
  /\ heap[pipelines[2].config]["a"] = Obj(2)
  /\ Len(Registry(2)) = 1

\* what `config || undefined` leaves of the config argument
Stored(c) == IF Falsy(c) THEN Undefined ELSE c

\* the adapter a registry holds for a key
AdapterAt(reg, k) == reg[IndexOf(reg, k)].adapter

\* C7 (as claimed): in the instance addAdapter constructs when the key is
\* registered already, the key's config entry is the supplied config,
\* undefined when none is supplied
C7_ReRegisterStoresSupplied ==
  [][ Len(pipelines') > Len(pipelines) =>
        \A q \in 1..Len(pipelines), k \in Keys, c \in AddInputs :
          \A res \in Returned(q) :
            (IndexOf(Registry(q), k) # 0 /\ AddAdapter(q, k, NewAdapter, c, res))
              => heap'[pipelines'[res].config][k] = c ]_vars

\* C7 (amended): in the instance addAdapter constructs when the key is
\* registered already, the new adapter is the key's adapter and the key's
\* config entry is the supplied config when that is truthy and undefined
\* otherwise; every other key keeps adapter and config; and a run
\* invokes, for each key, the adapter its pipeline holds for that key
C7_ReRegisterReplaces ==
  [][ /\ Len(pipelines') > Len(pipelines) =>
           \A q \in 1..Len(pipelines), k \in Keys, c \in AddInputs :
           \A res \in Returned(q) :
           (IndexOf(Registry(q), k) # 0 /\ AddAdapter(q, k, NewAdapter, c, res))
             => LET n == res
                    newReg == aheap'[pipelines'[n].adapters]
                    newCfg == heap'[pipelines'[n].config]
                IN /\ n = Len(pipelines') /\ n = Len(pipelines) + 1
                   /\ AdapterAt(newReg, k) = NewAdapter
                   /\ AdapterAt(newReg, k) # AdapterAt(Registry(q), k)
                   /\ newCfg[k] = Stored(c)
                   /\ Len(newReg) = Len(Registry(q))
                   /\ DOMAIN newCfg = DOMAIN heap[pipelines[q].config]
                   /\ \A i \in 1..Len(newReg) :
                        newReg[i].key # k => newReg[i] = Registry(q)[i]
                   /\ \A x \in (DOMAIN newCfg) \ {k} :
                        newCfg[x] = heap[pipelines[q].config][x]
      /\ \A c \in (Len(calls) + 1)..Len(calls') :
           calls'[c].adapter =
             AdapterAt(aheap'[pipelines'[runs'[calls'[c].run].pipe].adapters],
                       calls'[c].key) ]_vars

\* key "a" was registered with a config and registered again without one;
\* a run on the new pipeline with an override for "a" invoked the new adapter
C7_Witness ==
  /\ Len(pipelines) = 3
  /\ Len(Registry(2)) = 1 /\ Registry(2)[1].key = "a"
  /\ Len(Registry(3)) = 1 /\ Registry(3)[1].key = "a"
  /\ Registry(3)[1].adapter = 3 /\ Registry(2)[1].adapter = 2
  /\ heap[pipelines[2].config]["a"] = Obj(2)
  /\ heap[pipelines[3].config]["a"] = Undefined
  /\ \E c \in 1..Len(calls) :
       /\ runs[calls[c].run].pipe = 3
       /\ calls[c].adapter = 3
       /\ DeepVal(heap, frame, calls[c].input) = DeepVal(heap, frame, Obj(5))

\* the run record a RunStart step adds
NewRun == runs'[Len(runs')]

\* C8: setConfig writes the value under the key of the receiver's own config
\* object, changes no other entry, no other object, no adapter registry and
\* no pipeline, and returns the receiver; a run started on a pipeline reads,
\* for every key the override leaves out, the entry stored at that moment
C8_SetConfigInPlace ==
  [][ /\ (heap' # heap /\ runs' = runs) =>
           \A q \in 1..Len(pipelines), k \in Keys, v \in SetInputs :
             \A res \in Returned(q) :
               SetConfig(q, k, v, res)
                 => /\ Len(heap') = Len(heap)
                    /\ heap'[pipelines[q].config][k] = v
                    /\ DOMAIN heap'[pipelines[q].config]
                         = DOMAIN heap[pipelines[q].config]
                    /\ \A x \in (DOMAIN heap[pipelines[q].config]) \ {k} :
                         heap'[pipelines[q].config][x] = heap[pipelines[q].config][x]
                    /\ \A a \in (1..Len(heap)) \ {pipelines[q].config} :
                         heap'[a] = heap[a]
                    /\ aheap' = aheap
                    /\ pipelines' = pipelines
                    /\ res = q
      /\ Len(runs') > Len(runs) =>
           \A q \in 1..Len(pipelines), ov \in Overrides, par \in BOOLEAN :
             RunStart(q, ov, par)
               => \A k \in (DOMAIN heap[pipelines[q].config]) \ (DOMAIN ov) :
                    Get(heap', frame', NewRun.final, k)
                      = heap[pipelines[q].config][k] ]_vars

\* setConfig put {x: 2} under "a" where addAdapter had stored {x: 1, n: ..},
\* returned the receiver, and a run without override handed {x: 2} to the adapter
C8_Witness ==
  \E p \in 1..Len(pipelines) :
    /\ Len(Registry(p)) = 2
    /\ heap[pipelines[p].config]["a"] = Obj(3)
    /\ heap[pipelines[p].config]["b"] = Obj(2)
    /\ \E c \in 1..Len(calls) :
         /\ runs[calls[c].run].pipe = p
         /\ calls[c].key = "a"
         /\ calls[c].input = Obj(3)

\* C9: a step that changes the state of a run is a step of run (its start, an
\* adapter settling, an await, its return or rejection, its release) and
\* changes the stored config of no pipeline at any nesting level; and a run
\* without override works on a config structurally equal to the stored one
C9_RunKeepsStoredConfig ==
  [][ /\ runs' # runs =>
           /\ \/ \E q \in 1..Len(pipelines), ov \in Overrides, par \in BOOLEAN :
                   RunStart(q, ov, par)
              \/ \E r \in 1..Len(runs) : \E i \in 1..Len(runs[r].promises) :
                   \E ok \in BOOLEAN : Settle(r, i, ok)
              \/ \E r \in 1..Len(runs) : SeqAwait(r) \/ ParJoin(r) \/ Forget(r)
           /\ \A p \in 1..Len(pipelines) : ConfigKept(p)
      /\ Len(runs') > Len(runs) =>
           \A q \in 1..Len(pipelines), par \in BOOLEAN :
             RunStart(q, Absent, par)
               => DeepVal(heap', frame', Obj(NewRun.final)) = DeepConfig(q) ]_vars

\* a run whose override {a: {n: {z: 2}}} was merged two levels deep into the
\* stored {a: {x: 1, n: {z: 1}}} has settled, and the stored config is intact
C9_Witness ==
  \E r \in 1..Len(runs) :
    /\ runs[r].status \in {"resolved", "rejected"}
    /\ DeepVal(heap, frame, Get(heap, frame, pipelines[runs[r].pipe].config, "a"))
         = DeepVal(InitHeap, <<>>, Obj(2))
    /\ Get(heap, frame, runs[r].final, "a").t = "object"
    /\ LET fa == Get(heap, frame, runs[r].final, "a").n
       IN /\ fa # 2
          /\ Get(heap, frame, fa, "x") = Num(1)
          /\ Get(heap, frame, fa, "n").t = "object"
          /\ Get(heap, frame, Get(heap, frame, fa, "n").n, "z") = Num(2)

\* the indices of the point events of the stream that name metric n
PointsNamed(n) ==
  {i \in 1..Len(rawData) : rawData[i].type = "Point" /\ rawData[i].metric = n}

ReportsNamed(n) ==
  {i \in 1..Len(getSanitizedOutput) : getSanitizedOutput[i].name = n}

\* C10: the reports never hold two entries with one name, and once the
\* sanitizer is done every point of the input finds exactly one report that
\* bears its metric name
C10_OneReportPerName ==
  /\ \A i, j \in 1..Len(getSanitizedOutput) :
       getSanitizedOutput[i].name = getSanitizedOutput[j].name => i = j
  /\ phase = "done" =>
       \A p \in 1..Len(rawData) :
         rawData[p].type = "Point"
           => Cardinality(ReportsNamed(rawData[p].metric)) = 1

\* a finished run over a stream that defines one metric twice and holds
\* points of it and of a metric that was never defined
C10_Witness ==
  /\ phase = "done"
  /\ Len(getSanitizedOutput) = 2
  /\ \E n \in MetricNames :
       /\ Cardinality({i \in 1..Len(rawData) :
             rawData[i].type = "Metric" /\ rawData[i].name = n}) = 2
       /\ \A i \in 1..Len(rawData) : rawData[i].type = "Metric" => rawData[i].name = n
       /\ \E o \in MetricNames \ {n} : PointsNamed(o) # {}

\* the indices of the definition events of the stream that name metric n
DefsNamed(n) ==
  {i \in 1..Len(rawData) : rawData[i].type = "Metric" /\ rawData[i].name = n}

\* the point a report holds for a point event
PointOf(e) == [time |-> e.time, timestamp |-> DateOf(e.time), value |-> e.value]

\* the second forEach has handled event i
Attached(i) == phase \in {"summaries", "done"} \/ (phase = "points" /\ pos > i)

\* C11: every point event the second pass has handled is in the point
\* sequence of the report that bears its metric name, and when no definition
\* event of the input names that metric the report is of kind "unknown" and
\* has no unit
C11_NoPointDropped ==
  \A i \in 1..Len(rawData) :
    (rawData[i].type = "Point" /\ Attached(i))
      => \E r \in 1..Len(getSanitizedOutput) :
           LET report == getSanitizedOutput[r]
           IN /\ report.name = rawData[i].metric
              /\ \E j \in 1..Len(report.points) :
                   report.points[j] = PointOf(rawData[i])
              /\ DefsNamed(rawData[i].metric) = {}
                   => report.type = "unknown" /\ report.unit = NoUnit

\* a finished run over a stream with a definition of one metric, a point of
\* it, and a point of a metric no event defines, now in an "unknown" report
C11_Witness ==
  /\ phase = "done"
  /\ \E n \in MetricNames, o \in MetricNames :
       /\ DefsNamed(n) # {} /\ PointsNamed(n) # {}
       /\ DefsNamed(o) = {} /\ PointsNamed(o) # {}
       /\ \E r \in 1..Len(getSanitizedOutput) :
            /\ getSanitizedOutput[r].name = o
            /\ getSanitizedOutput[r].type = "unknown"
            /\ Len(getSanitizedOutput[r].points) = 1

\* the first definition event of the stream that names metric n
FirstDef(n) == CHOOSE i \in DefsNamed(n) : \A j \in DefsNamed(n) : i <= j

\* the first forEach has handled event i
Defined(i) == phase # "definitions" \/ pos > i

\* the report of metric n carries kind and unit of the first definition of n
FirstWins(n) ==
  \E r \in 1..Len(getSanitizedOutput) :
    /\ getSanitizedOutput[r].name = n
    /\ getSanitizedOutput[r].type = rawData[FirstDef(n)].kind
    /\ getSanitizedOutput[r].unit
         = getUnitFromContains(rawData[FirstDef(n)].contains)

\* C12: once the first definition event of a name is handled, the report of
\* that name carries its kind and its inferred unit after every step, and
\* the callback handling a later definition of the name leaves the Map as it is
C12_FirstDefinitionWins ==
  [][ /\ \A n \in MetricNames :
           (DefsNamed(n) # {} /\ Defined(FirstDef(n))') => FirstWins(n)'
      /\ (/\ phase = "definitions" /\ pos <= Len(rawData)
          /\ rawData[pos].type = "Metric"
          /\ pos # FirstDef(rawData[pos].name))
           => metrics' = metrics ]_vars

\* a finished run over a stream whose first and second definition of one
\* metric differ in kind and in unit, with a point of that metric
C12_Witness ==
  /\ phase = "done"
  /\ \E n \in MetricNames :
       \E i, j \in DefsNamed(n) :
         /\ i = FirstDef(n) /\ i < j
         /\ rawData[i].kind # rawData[j].kind
         /\ getUnitFromContains(rawData[i].contains)
              # getUnitFromContains(rawData[j].contains)
         /\ FirstWins(n)
         /\ PointsNamed(n) # {}

\* the events the second forEach has handled
Handled ==
  CASE phase = "definitions" -> <<>>
    [] phase = "points" -> SubSeq(rawData, 1, pos - 1)
    [] OTHER -> rawData

RECURSIVE ArrivalPoints(_, _)
\* the points of the point events of s that name metric n, in the order of s
ArrivalPoints(s, n) ==
  IF s = <<>> THEN <<>>
  ELSE (IF Head(s).type = "Point" /\ Head(s).metric = n
        THEN <<PointOf(Head(s))>> ELSE <<>>)
       \o ArrivalPoints(Tail(s), n)

\* C13: the point sequence of every report is the sequence of the point
\* events handled so far that name its metric, in their order in the stream
C13_ArrivalOrder ==
  \A r \in 1..Len(getSanitizedOutput) :
    getSanitizedOutput[r].points
      = ArrivalPoints(Handled, getSanitizedOutput[r].name)

\* a finished run with a report whose first point is later in time and larger
\* in value than its second: sorted neither by time nor by value
C13_Witness ==
  /\ phase = "done"
  /\ \E r \in 1..Len(getSanitizedOutput) :
       LET pts == getSanitizedOutput[r].points
       IN /\ Len(pts) >= 2
          /\ pts[1].time > pts[2].time
          /\ NumLess(pts[2].value, pts[1].value)

\* C14: once the sanitizer is done, a report with points has a summary whose
\* count is the length of its point sequence, and a report without points
\* has no summary
C14_SummaryCount ==
  phase = "done" =>
    \A r \in 1..Len(getSanitizedOutput) :
      LET report == getSanitizedOutput[r]
      IN IF Len(report.points) >= 1
         THEN report.hasSummary /\ report.summary.count = Len(report.points)
         ELSE ~report.hasSummary /\ report.summary = NoSummary

\* a finished run with a report of two points and their summary, and a
\* report of a metric that was defined and received no point
C14_Witness ==
  /\ phase = "done"
  /\ \E r, q \in 1..Len(getSanitizedOutput) :
       /\ Len(getSanitizedOutput[r].points) = 2
       /\ getSanitizedOutput[r].summary.count = 2
       /\ getSanitizedOutput[q].points = <<>>
       /\ ~getSanitizedOutput[q].hasSummary

----------------------------------------------------------------------------
(* C15 *)

\* sums of Numbers as the real numbers they stand for: m * 2^e, m of any size
ExactAdd(a, b) ==
  LET e == IF a.e < b.e THEN a.e ELSE b.e
  IN [m |-> AddNat(ShiftLeft(a.m, a.e - e), ShiftLeft(b.m, b.e - e), 0),
      e |-> e]

RECURSIVE ExactSum(_)
ExactSum(values) ==
  IF values = <<>> THEN Zero
  ELSE ExactAdd(ExactSum(SubSeq(values, 1, Len(values) - 1)),
                values[Len(values)])

ExactEq(a, b) ==
  LET e == IF a.e < b.e THEN a.e ELSE b.e
  IN ShiftLeft(a.m, a.e - e) = ShiftLeft(b.m, b.e - e)

ValuesOf(report) == [i \in 1..Len(report.points) |-> report.points[i].value]

\* min <= avg <= max
AvgInRange(report) ==
  /\ NumLeq(report.summary.min, report.summary.avg)
  /\ NumLeq(report.summary.avg, report.summary.max)

\* C15: once the summaries are calculated, every report with at least one
\* point has for min its smallest point value, for max its largest, and for
\* avg the sum of its point values divided by their count: avg * count is
\* the sum and min <= avg <= max.
C15_SummaryStatistics ==
  phase = "done" =>
    \A i \in 1..Len(getSanitizedOutput) :
      LET report == getSanitizedOutput[i]
          values == ValuesOf(report)
          sm == report.summary
      IN Len(values) > 0 =>
           /\ report.hasSummary
           /\ \E j \in 1..Len(values) : sm.min = values[j]
           /\ \A j \in 1..Len(values) : NumLeq(sm.min, values[j])
           /\ \E j \in 1..Len(values) : sm.max = values[j]
           /\ \A j \in 1..Len(values) : NumLeq(values[j], sm.max)
           /\ ExactEq(ExactSum([j \in 1..sm.count |-> sm.avg]),
                      ExactSum(values))
           /\ AvgInRange(report)

\* the part of C15 that orders the three statistics
C15_AvgBetweenMinAndMax ==
  phase = "done" =>
    \A i \in 1..Len(getSanitizedOutput) :
      Len(getSanitizedOutput[i].points) > 0 => AvgInRange(getSanitizedOutput[i])

\* the example of C15: values [1, 2, 3] give avg 2, min 1, max 3, count 3
C15_Example ==
  phase = "done" =>
    \A i \in 1..Len(getSanitizedOutput) :
      ValuesOf(getSanitizedOutput[i]) = <<NumOf(1), NumOf(2), NumOf(3)>>
        => getSanitizedOutput[i].summary =
             [count |-> 3, avg |-> NumOf(2), min |-> NumOf(1), max |-> NumOf(3)]

C15_ExampleReached ==
  /\ phase = "done"
  /\ \E i \in 1..Len(getSanitizedOutput) :
       ValuesOf(getSanitizedOutput[i]) = <<NumOf(1), NumOf(2), NumOf(3)>>

----------------------------------------------------------------------------
(* C16, C17 *)

Tree(h, f, a) == DeepVal(h, f, Obj(a))

\* the merge of two written-out objects, key by key
RECURSIVE MergeRule(_, _)
MergeRule(T, S) ==
  [t |-> "object", n |-> 0,
   f |-> [k \in (DOMAIN T.f) \cup (DOMAIN S.f) |->
            IF k \in DOMAIN T.f /\ k \in DOMAIN S.f
                 /\ T.f[k].t = "object" /\ S.f[k].t = "object"
            THEN MergeRule(T.f[k], S.f[k])
            ELSE IF k \in DOMAIN S.f THEN S.f[k]
            ELSE T.f[k]]]

\* the override argument of run, written out
OverrideTree(ov) ==
  [t |-> "object", n |-> 0,
   f |-> IF ov = Absent THEN EmptyObj
         ELSE [k \in DOMAIN ov |-> DeepVal(heap, frame, ov[k])]]

LastMerged == merged[Len(merged)]

\* C16: the object deepMerge(target, source) returns has, for every key, the
\* recursive merge of both values when both have the key with non-array
\* objects as values, otherwise the source's value when the source has the
\* key, otherwise the target's value; and the config run hands to the
\* adapters is this merge of the stored config and the override.
C16_MergesKeyByKey ==
  [][ /\ merged' # merged =>
           Tree(heap', frame', merged'[Len(merged')])
             = MergeRule(Tree(heap, frame, target'), Tree(heap, frame, source'))
      /\ Len(runs') > Len(runs) =>
           \A ov \in MergeOverrides, par \in BOOLEAN :
             RunStart(1, ov, par)
               => Tree(heap', frame', NewRun.final)
                    = MergeRule(DeepConfig(1), OverrideTree(ov)) ]_vars

\* {a: [1, 2], n: {z: 1}} was merged with {a: [3], n: {z: 2}, b: null}: the
\* array was replaced, the nested objects were merged, the new key was added;
\* and a run merged the stored {n: {a: [1, 2], n: {z: 1}}, b: {x: 2}} with the
\* override {n: {n: {z: 2}}, b: [1, 2]}
C16_Witness ==
  /\ merged # <<>>
  /\ target = 9
  /\ source = 10
  /\ Get(heap, frame, LastMerged, "a") = Arr(8)
  /\ Get(heap, frame, LastMerged, "b") = Null
  /\ Get(heap, frame, LastMerged, "n").t = "object"
  /\ Get(heap, frame, LastMerged, "n").n \notin {1, 4}
  /\ Get(heap, frame, Get(heap, frame, LastMerged, "n").n, "z") = Num(2)
  /\ runs # <<>>
  /\ pipelines[1].config = 12
  /\ Get(heap, frame, runs[1].final, "b") = Arr(7)
  /\ Get(heap, frame, runs[1].final, "n").t = "object"
  /\ Get(heap, frame, Get(heap, frame, runs[1].final, "n").n, "a") = Arr(7)

\* C17: deepMerge(x, x) is structurally equal to x
C17_MergeOntoItself ==
  [][ merged' # merged /\ target' = source'
        => Tree(heap', frame', merged'[Len(merged')])
             = Tree(heap, frame, target') ]_vars

\* {n: {a: [1, 2], n: {z: 1}}, b: {x: 2}} was merged onto itself into a new
\* object
C17_Witness ==
  /\ merged # <<>>
  /\ target = 12
  /\ source = 12
  /\ LastMerged # 12
  /\ Get(heap, frame, LastMerged, "n").t = "object"
  /\ Get(heap, frame, LastMerged, "n").n # 9

----------------------------------------------------------------------------
(* C18 *)

HasInvalidLine == \E i \in 1..Len(fileContent) : fileContent[i].kind = "text"

FirstInvalidLine ==
  CHOOSE i \in 1..Len(fileContent) :
    /\ fileContent[i].kind = "text"
    /\ \A j \in 1..(i - 1) : fileContent[j].kind # "text"

\* the part of C18 about the sanitizer: with a line that is not valid in the
\* file no sanitizer is constructed and nothing is returned
C18_NeverSanitized ==
  HasInvalidLine => phase = "none" /\ outcome.kind # "resolved"

\* C18: when the file has a line that is not valid structured data, run
\* rejects with a parse failure that gives the number this line has in the
\* file, blank lines counted; the sanitizer is never constructed and no
\* sanitized output is returned.
C18_ParseFailureNamesLine ==
  HasInvalidLine =>
    /\ C18_NeverSanitized
    /\ outcome.kind # "pending" =>
         /\ outcome.kind = "rejected"
         /\ outcome.error = "Failed to parse JSON at line"
         /\ outcome.line = FirstInvalidLine

\* run has rejected a file whose invalid line comes after a blank line
C18_BlankBeforeInvalid ==
  /\ outcome.kind = "rejected"
  /\ HasInvalidLine
  /\ \E j \in 1..(FirstInvalidLine - 1) : fileContent[j].kind = "blank"

----------------------------------------------------------------------------
(* C19 *)

\* point event i stands in the stream before the first definition of its metric
BeforeItsDefinition(i) ==
  /\ rawData[i].type = "Point"
  /\ DefsNamed(rawData[i].metric) # {}
  /\ i < FirstDef(rawData[i].metric)

\* C19: no point is attached while the first pass runs; a point event that
\* stands before the definition of its metric is, once handled, in the report
\* that carries the kind and unit of that definition; and a report of kind
\* "unknown" exists only for a name no definition event of the input bears.
C19_DefinitionsBeforePoints ==
  /\ phase = "definitions" =>
       \A r \in 1..Len(getSanitizedOutput) : getSanitizedOutput[r].points = <<>>
  /\ \A i \in 1..Len(rawData) :
       (BeforeItsDefinition(i) /\ Attached(i))
         => \E r \in 1..Len(getSanitizedOutput) :
              /\ FirstWins(rawData[i].metric)
              /\ getSanitizedOutput[r].name = rawData[i].metric
              /\ getSanitizedOutput[r].type # "unknown"
              /\ \E j \in 1..Len(getSanitizedOutput[r].points) :
                   getSanitizedOutput[r].points[j] = PointOf(rawData[i])
  /\ \A r \in 1..Len(getSanitizedOutput) :
       getSanitizedOutput[r].type = "unknown"
         => DefsNamed(getSanitizedOutput[r].name) = {}

\* a finished run over a stream that starts with a point of a metric whose
\* definition (a trend measured in ms) comes later: the report is that trend
\* and holds the point
C19_Witness ==
  /\ phase = "done"
  /\ Len(rawData) >= 2
  /\ BeforeItsDefinition(1)
  /\ rawData[FirstDef(rawData[1].metric)].kind = "trend"
  /\ Len(getSanitizedOutput) = 1
  /\ getSanitizedOutput[1].type = "trend"
  /\ getSanitizedOutput[1].unit = "ms"
  /\ getSanitizedOutput[1].points[1] = PointOf(rawData[1])

----------------------------------------------------------------------------
(* C20 *)

InFlight(r) == runs[r].status = "pending"

\* C20: a setConfig call made while a run is in flight starts no adapter and
\* leaves what every adapter of the run was given, and the merged config of
\* the run, as they were at every nesting level; and a run that starts gives
\* every adapter it starts the entry of the merge of the stored config, as it
\* is at that moment, with the override.
C20_SetConfigDuringRun ==
  [][ /\ (runs # <<>> /\ heap' # heap /\ InFlight(1)) =>
           \A q \in 1..Len(pipelines), k \in Keys, v \in SetInputs :
             SetConfig(q, k, v, q)
               => /\ calls' = calls
                  /\ runs' = runs
                  /\ \A c \in 1..Len(calls) :
                       DeepVal(heap', frame', calls[c].input)
                         = DeepVal(heap, frame, calls[c].input)
                  /\ Tree(heap', frame', runs[1].final)
                       = Tree(heap, frame, runs[1].final)
      /\ Len(runs') > Len(runs) =>
           \A q \in 1..Len(pipelines), ov \in Overrides, par \in BOOLEAN :
             RunStart(q, ov, par)
               => /\ Tree(heap', frame', NewRun.final)
                       = MergeRule(DeepConfig(q), OverrideTree(ov))
                  /\ \A c \in (Len(calls) + 1)..Len(calls') :
                       calls'[c].input
                         = Get(heap', frame', NewRun.final, calls'[c].key) ]_vars

\* a run in flight handed the stored {x: 1, n: {z: 1}} to the adapter under
\* "a", and setConfig has since put {x: 2} under "a" of the same pipeline
C20_Witness ==
  /\ runs # <<>>
  /\ InFlight(1)
  /\ \E c \in 1..Len(calls) :
       /\ calls[c].key = "a"
       /\ calls[c].input = Obj(2)
       /\ DeepVal(heap, frame, calls[c].input) = DeepVal(InitHeap, <<>>, Obj(2))
       /\ "a" \in DOMAIN heap[pipelines[runs[1].pipe].config]
       /\ heap[pipelines[runs[1].pipe].config]["a"] = Obj(3)

====
